---- MODULE Spec2Model ----
(***************************************************************************)
(* Model of the recipe knowledge-graph generator (generate_graph.py, its   *)
(* copy graph_generate.py) and of the grouped count query of               *)
(* query_graph.py.                                                         *)
(*                                                                         *)
(* A Python string is a sequence of one-character strings.  A JSON field   *)
(* of a meal record is a value [k, s]: k = "absent" (no such key),         *)
(* k = "null" (JSON null) or k = "str" with the characters s.  An RDF term *)
(* is [t, ns, v]: a URIRef is its namespace and the characters after it    *)
(* (the five namespaces are prefix-free, so this pair determines the URI   *)
(* string and conversely), a Literal is its characters.  The fixed         *)
(* vocabulary terms (rdf:type, rdfs:label, recipe:Meal, ...) are written   *)
(* with their local name as one token.                                     *)
(***************************************************************************)
EXTENDS Integers, Sequences, FiniteSets

VARIABLES count, i, attempts, failed, sleeps, meals, pc, idx, g, emitted,
          error, file, queried, rows4

vars == <<count, i, attempts, failed, sleeps, meals, pc, idx, g, emitted,
          error, file, queried, rows4>>

\* Largest count fetch_random_meals is called with in the model (main uses 50).
MaxCount == 3

\* range(1, 21): the ingredient slots add_meal_to_graph inspects.
NumSlots == 20

\* The strIngredientN / strMeasureN keys a record of the model may carry:
\* one more than the mapper inspects.
KeySlots == 1..(NumSlots + 1)

----------------------------------------------------------------------------
\* JSON values and Python helpers

Absent == [k |-> "absent", s |-> <<>>]

Null == [k |-> "null", s |-> <<>>]

Str(s) == [k |-> "str", s |-> s]

\* dict.get(key): None for a missing key as for a null value.
Get(v) == IF v.k = "absent" THEN Null ELSE v

\* Truthy as "is not None": an empty string passes.
TruthyPresent(v) == v.k = "str"

\* Python truthiness of a str-or-None value: None and "" are falsy.
Truthy(v) == v.k = "str" /\ v.s # <<>>

\* The characters str.strip() removes (those of the modelled alphabet).
Whitespace == {" ", "\t"}

RECURSIVE LStrip(_)
LStrip(s) ==
    IF s # <<>> /\ Head(s) \in Whitespace THEN LStrip(Tail(s)) ELSE s

RECURSIVE RStrip(_)
RStrip(s) ==
    IF s # <<>> /\ s[Len(s)] \in Whitespace
    THEN RStrip(SubSeq(s, 1, Len(s) - 1))
    ELSE s

\* str.strip()
Strip(s) == RStrip(LStrip(s))

\* str.replace(" ", "_")
ReplaceSpaces(s) == [n \in 1..Len(s) |-> IF s[n] = " " THEN "_" ELSE s[n]]

\* urllib.parse.quote on one character: letters, digits and _ . - ~ / stay,
\* every other character becomes % and its two hex digits.
QuoteChar(c) ==
    CASE c = " "  -> <<"%", "2", "0">>
      [] c = "\t" -> <<"%", "0", "9">>
      [] c = "&"  -> <<"%", "2", "6">>
      [] c = "%"  -> <<"%", "2", "5">>
      [] OTHER    -> <<c>>

RECURSIVE Quote(_)
Quote(s) == IF s = <<>> THEN <<>> ELSE QuoteChar(Head(s)) \o Quote(Tail(s))

Digit == <<"0", "1", "2", "3", "4", "5", "6", "7", "8", "9">>

\* str(n) of a natural number, as the f-string formats the slot index.
RECURSIVE DecStr(_)
DecStr(n) ==
    IF n < 10 THEN <<Digit[n + 1]>>
    ELSE DecStr(n \div 10) \o <<Digit[(n % 10) + 1]>>

\* f"{value}" of a str-or-None value.
Format(v) == IF v.k = "str" THEN v.s ELSE <<"N", "o", "n", "e">>

----------------------------------------------------------------------------
\* RDF terms and the namespaces

URIRef(ns, local) == [t |-> "uri", ns |-> ns, v |-> local]

Literal(s) == [t |-> "lit", ns |-> "", v |-> s]

None == [t |-> "none", ns |-> "", v |-> <<>>]

\* Namespace.__getitem__: the namespace followed by the key when the key is
\* a str, the bare namespace otherwise.
NamespaceTerm(ns, key) == URIRef(ns, IF key.k = "str" THEN key.s ELSE <<>>)

RECIPE(name) == URIRef("recipe", <<name>>)

MEAL(key) == NamespaceTerm("meal", key)

RDF_type == URIRef("rdf", <<"type">>)

RDFS_label == URIRef("rdfs", <<"label">>)

Range(seq) == {seq[n] : n \in 1..Len(seq)}

----------------------------------------------------------------------------
\* The record-to-triple mapping

\* CategoryUri scoped by the meal id, as ingredient URIs are.
CategoryUriPerMeal(meal) ==
    URIRef("category",
           Format(meal.idMeal) \o <<"_">>
               \o Quote(ReplaceSpaces(Strip(meal.strCategory.s))))

\* IngredientUri keyed by the position in main's loop instead of the meal id.
IngredientUriByPosition(meal_id, n) ==
    URIRef("ingredient",
           DecStr(idx) \o <<"_", "i", "n", "g", "r", "e", "d", "i", "e", "n", "t", "_">>
               \o DecStr(n))

\* SlotHasName without the strip() test.
SlotHasNameUntrimmed(meal, n) == Truthy(Get(meal.strIngredient[n]))

\* create_uri_ref(namespace, value)
create_uri_ref(namespace, value) ==
    IF Truthy(value)
    THEN NamespaceTerm(namespace, Str(Quote(ReplaceSpaces(Strip(value.s)))))
    ELSE None

\* CuisineUri built in the CATEGORY namespace.
CuisineUriInCategoryNamespace(meal) == create_uri_ref("category", meal.strArea)

\* category_uri = create_uri_ref(CATEGORY, meal["strCategory"])
CategoryUri(meal) == create_uri_ref("category", meal.strCategory)

\* cuisine_uri = create_uri_ref(CUISINE, meal["strArea"])
CuisineUri(meal) == create_uri_ref("cuisine", meal.strArea)

\* URIRef(f"{INGREDIENT}{meal_id}_ingredient_{i}")
IngredientUri(meal_id, n) ==
    URIRef("ingredient",
           Format(meal_id) \o <<"_", "i", "n", "g", "r", "e", "d", "i", "e", "n", "t", "_">>
               \o DecStr(n))

\* if meal.get(field): g.add((meal_uri, predicate, Literal(meal[field])))
ScalarTriples(meal_uri, value, predicate) ==
    IF Truthy(Get(value))
    THEN << <<meal_uri, predicate, Literal(value.s)>> >>
    ELSE <<>>

\* The "Add category" block.
CategoryTriples(meal) ==
    IF Truthy(Get(meal.strCategory))
    THEN << <<CategoryUri(meal), RDF_type, RECIPE("Category")>>,
            <<CategoryUri(meal), RDFS_label, Literal(meal.strCategory.s)>>,
            <<MEAL(meal.idMeal), RECIPE("belongsToCategory"), CategoryUri(meal)>> >>
    ELSE <<>>

\* The "Add cuisine/area" block.
CuisineTriples(meal) ==
    IF Truthy(Get(meal.strArea))
    THEN << <<CuisineUri(meal), RDF_type, RECIPE("Cuisine")>>,
            <<CuisineUri(meal), RDFS_label, Literal(meal.strArea.s)>>,
            <<MEAL(meal.idMeal), RECIPE("belongsToCuisine"), CuisineUri(meal)>> >>
    ELSE <<>>

\* if ingredient_name and ingredient_name.strip()
SlotHasName(meal, n) ==
    /\ Truthy(Get(meal.strIngredient[n]))
    /\ Strip(meal.strIngredient[n].s) # <<>>

\* if ingredient_measure and ingredient_measure.strip()
SlotHasMeasure(meal, n) ==
    /\ Truthy(Get(meal.strMeasure[n]))
    /\ Strip(meal.strMeasure[n].s) # <<>>

\* The body of the ingredient loop for slot n.
SlotTriples(meal, n) ==
    LET ingredient_uri == IngredientUri(meal.idMeal, n)
    IN  IF SlotHasName(meal, n)
        THEN << <<ingredient_uri, RDF_type, RECIPE("Ingredient")>>,
                <<ingredient_uri, RECIPE("ingredientName"),
                  Literal(Strip(meal.strIngredient[n].s))>> >>
             \o (IF SlotHasMeasure(meal, n)
                 THEN << <<ingredient_uri, RECIPE("ingredientMeasure"),
                           Literal(Strip(meal.strMeasure[n].s))>> >>
                 ELSE <<>>)
             \o << <<MEAL(meal.idMeal), RECIPE("hasIngredient"), ingredient_uri>> >>
        ELSE <<>>

\* for i in range(1, 21): the ingredient loop from slot n on.
RECURSIVE IngredientTriples(_, _)
IngredientTriples(meal, n) ==
    IF n > NumSlots THEN <<>>
    ELSE SlotTriples(meal, n) \o IngredientTriples(meal, n + 1)

\* The g.add calls of add_meal_to_graph(meal), in the order it makes them
\* (meal["idMeal"] is present).
MealTriples(meal) ==
    LET meal_uri == MEAL(meal.idMeal)
    IN  << <<meal_uri, RDF_type, RECIPE("Meal")>> >>
        \o ScalarTriples(meal_uri, meal.strMeal, RECIPE("hasName"))
        \o ScalarTriples(meal_uri, meal.strInstructions, RECIPE("hasInstructions"))
        \o ScalarTriples(meal_uri, meal.strMealThumb, RECIPE("hasThumbnail"))
        \o ScalarTriples(meal_uri, meal.strYoutube, RECIPE("hasYoutubeLink"))
        \o CategoryTriples(meal)
        \o CuisineTriples(meal)
        \o IngredientTriples(meal, 1)

----------------------------------------------------------------------------
\* The records the collaborator returns in the model

EmptyMeal ==
    [idMeal |-> Absent, strMeal |-> Absent, strInstructions |-> Absent,
     strMealThumb |-> Absent, strYoutube |-> Absent, strCategory |-> Absent,
     strArea |-> Absent,
     strIngredient |-> [n \in KeySlots |-> Absent],
     strMeasure |-> [n \in KeySlots |-> Absent]]

\* idMeal="52874", strMeal="Beef Stew", strCategory="Beef", strArea="Italian",
\* strIngredient1="Beef", strMeasure1="1kg", nothing else.
BeefStew ==
    [EmptyMeal EXCEPT
        !.idMeal = Str(<<"5", "2", "8", "7", "4">>),
        !.strMeal = Str(<<"B", "e", "e", "f", " ", "S", "t", "e", "w">>),
        !.strCategory = Str(<<"B", "e", "e", "f">>),
        !.strArea = Str(<<"I", "t", "a", "l", "i", "a", "n">>),
        !.strIngredient[1] = Str(<<"B", "e", "e", "f">>),
        !.strMeasure[1] = Str(<<"1", "k", "g">>)]

\* All four scalars but an empty video link; the labels of BeefStew, the
\* cuisine with surrounding blanks; a name to trim with a blank measure, a
\* blank and an empty name with a measure, a measure to trim, a last slot
\* without measure, a slot past the last.
Pie ==
    [EmptyMeal EXCEPT
        !.idMeal = Str(<<"1">>),
        !.strMeal = Str(<<"P", "i", "e">>),
        !.strInstructions = Str(<<"M", "i", "x">>),
        !.strMealThumb = Str(<<"t", ".", "j", "p", "g">>),
        !.strYoutube = Str(<<>>),
        !.strCategory = Str(<<"B", "e", "e", "f">>),
        !.strArea = Str(<<" ", "I", "t", "a", "l", "i", "a", "n", " ">>),
        !.strIngredient[1] = Str(<<"S", "a", "l", "t", " ">>),
        !.strMeasure[1] = Str(<<" ">>),
        !.strIngredient[2] = Str(<<" ">>),
        !.strMeasure[2] = Str(<<"1", "k", "g">>),
        !.strIngredient[3] = Str(<<>>),
        !.strMeasure[3] = Str(<<"1", "k", "g">>),
        !.strIngredient[4] = Str(<<"B", "e", "e", "f">>),
        !.strMeasure[4] = Str(<<" ", "1", "k", "g">>),
        !.strIngredient[NumSlots] = Str(<<"B", "e", "e", "f">>),
        !.strMeasure[NumSlots] = Null,
        !.strIngredient[NumSlots + 1] = Str(<<"S", "a", "l", "t">>),
        !.strMeasure[NumSlots + 1] = Str(<<"1", "k", "g">>)]

\* No strMeal key; a cuisine with a character quote() encodes; a null name
\* with a measure; a name and a measure to trim.
Fish ==
    [EmptyMeal EXCEPT
        !.idMeal = Str(<<"2">>),
        !.strYoutube = Str(<<"y", "t">>),
        !.strCategory = Str(<<"S", "e", "a", "f", "o", "o", "d">>),
        !.strArea = Str(<<"R", "&", "B">>),
        !.strIngredient[1] = Null,
        !.strMeasure[1] = Str(<<"1", "k", "g">>),
        !.strIngredient[2] = Str(<<"\t", "C", "o", "d">>),
        !.strMeasure[2] = Str(<<"1", "k", "g", " ">>)]

\* A category with an inner blank, a cuisine with surrounding blanks.
Side ==
    [EmptyMeal EXCEPT
        !.idMeal = Str(<<"3">>),
        !.strMeal = Str(<<"D", "i", "p">>),
        !.strCategory = Str(<<"a", " ", "b">>),
        !.strArea = Str(<<" ", "I", "t", "a", "l", "i", "a", "n", " ">>)]

\* The id of Pie again with other contents; a label that differs from
\* Side's by the character the blank is replaced with.
PieAgain ==
    [EmptyMeal EXCEPT
        !.idMeal = Str(<<"1">>),
        !.strMeal = Str(<<"T", "a", "r", "t">>),
        !.strCategory = Str(<<"a", "_", "b">>),
        !.strArea = Str(<<"I", "t", "a", "l", "i", "a", "n">>),
        !.strIngredient[1] = Str(<<" ">>),
        !.strMeasure[1] = Str(<<"1", "k", "g">>)]

\* No idMeal key.
NoId ==
    [EmptyMeal EXCEPT
        !.strMeal = Str(<<"P", "i", "e">>),
        !.strCategory = Str(<<"B", "e", "e", "f">>),
        !.strIngredient[1] = Str(<<"S", "a", "l", "t">>)]

\* idMeal is the empty string.
EmptyId ==
    [EmptyMeal EXCEPT
        !.idMeal = Str(<<>>),
        !.strMeal = Str(<<"P", "i", "e">>),
        !.strIngredient[1] = Str(<<"S", "a", "l", "t">>)]

\* idMeal is null.
NullId ==
    [EmptyMeal EXCEPT
        !.idMeal = Null,
        !.strMeal = Str(<<"P", "i", "e">>),
        !.strIngredient[1] = Str(<<"S", "a", "l", "t">>)]

\* Labels of blanks only, a null name.
Blank ==
    [EmptyMeal EXCEPT
        !.idMeal = Str(<<"4">>),
        !.strMeal = Null,
        !.strCategory = Str(<<" ">>),
        !.strArea = Str(<<"\t", " ">>)]

\* Empty labels.
Bare ==
    [EmptyMeal EXCEPT
        !.idMeal = Str(<<"4">>),
        !.strMeal = Str(<<>>),
        !.strCategory = Str(<<>>),
        !.strArea = Null]

Records ==
    {BeefStew, Pie, Fish, Side, PieAgain, NoId, EmptyId, NullId, Blank, Bare}

----------------------------------------------------------------------------
\* generate_graph.py: fetch_random_meals(count) and main()

Init ==
    /\ count \in 0..MaxCount
    /\ i = 0
    /\ attempts = 0
    /\ failed = 0
    /\ sleeps = 0
    /\ meals = <<>>
    /\ pc = "fetch"
    /\ idx = 0
    /\ g = {}
    /\ emitted = <<>>
    /\ error = "none"
    /\ file = [exists |-> FALSE, triples |-> {}]
    /\ queried = FALSE
    /\ rows4 = <<>>

\* FetchBadStatus that asks again for the same record: i stays.
FetchBadStatusRetry ==
    /\ pc = "fetch"
    /\ i < count
    /\ attempts < MaxCount
    /\ attempts' = attempts + 1
    /\ failed' = failed + 1
    /\ sleeps' = sleeps + 1
    /\ UNCHANGED <<count, i, meals, pc, idx, g, emitted, error, file, queried, rows4>>

\* One iteration in which requests.get raises: the except clause prints the
\* error; time.sleep is skipped.
FetchException ==
    /\ pc = "fetch"
    /\ i < count
    /\ attempts' = attempts + 1
    /\ failed' = failed + 1
    /\ i' = i + 1
    /\ UNCHANGED <<count, sleeps, meals, pc, idx, g, emitted, error, file, queried, rows4>>

\* One iteration whose response has a status other than 200: nothing is
\* appended, time.sleep runs.
FetchBadStatus ==
    /\ pc = "fetch"
    /\ i < count
    /\ attempts' = attempts + 1
    /\ failed' = failed + 1
    /\ sleeps' = sleeps + 1
    /\ i' = i + 1
    /\ UNCHANGED <<count, meals, pc, idx, g, emitted, error, file, queried, rows4>>

\* One iteration with status 200 in which response.json()["meals"][0] raises
\* (no JSON, no "meals" key, null or empty list): nothing is appended and
\* time.sleep is skipped.
FetchMalformed ==
    /\ pc = "fetch"
    /\ i < count
    /\ attempts' = attempts + 1
    /\ failed' = failed + 1
    /\ i' = i + 1
    /\ UNCHANGED <<count, sleeps, meals, pc, idx, g, emitted, error, file, queried, rows4>>

\* One iteration with status 200 and a record: the record is appended; the
\* print reads meal['strMeal'] and raises KeyError when the record has no
\* such key, which skips time.sleep.
FetchMeal ==
    /\ pc = "fetch"
    /\ i < count
    /\ \E meal \in Records :
          /\ meals' = Append(meals, meal)
          /\ sleeps' = IF meal.strMeal.k = "absent" THEN sleeps ELSE sleeps + 1
    /\ attempts' = attempts + 1
    /\ i' = i + 1
    /\ UNCHANGED <<count, failed, pc, idx, g, emitted, error, file, queried, rows4>>

\* The loop is over: return meals; main goes on to build the graph.
FetchReturn ==
    /\ pc = "fetch"
    /\ i = count
    /\ pc' = "build"
    /\ UNCHANGED <<count, i, attempts, failed, sleeps, meals, idx, g, emitted, error,
                   file, queried, rows4>>

\* add_meal_to_graph(meal) for the next meal of main's loop, the record
\* having an idMeal key: every triple is added to the set g.
AddMealToGraph ==
    /\ pc = "build"
    /\ idx < Len(meals)
    /\ meals[idx + 1].idMeal.k # "absent"
    /\ emitted' = MealTriples(meals[idx + 1])
    /\ g' = g \cup Range(MealTriples(meals[idx + 1]))
    /\ idx' = idx + 1
    /\ UNCHANGED <<count, i, attempts, failed, sleeps, meals, pc, error, file, queried,
                   rows4>>

\* add_meal_to_graph(meal) for a record without idMeal key: meal["idMeal"]
\* raises KeyError before any g.add; main does not catch it.
AddMealKeyError ==
    /\ pc = "build"
    /\ idx < Len(meals)
    /\ meals[idx + 1].idMeal.k = "absent"
    /\ error' = "KeyError"
    /\ pc' = "crashed"
    /\ emitted' = <<>>
    /\ UNCHANGED <<count, i, attempts, failed, sleeps, meals, idx, g, file, queried,
                   rows4>>

\* g.serialize(destination=output_file, format="turtle")
Serialize ==
    /\ pc = "build"
    /\ idx = Len(meals)
    /\ file' = [exists |-> TRUE, triples |-> g]
    /\ pc' = "done"
    /\ UNCHANGED <<count, i, attempts, failed, sleeps, meals, idx, g, emitted, error,
                   queried, rows4>>

----------------------------------------------------------------------------
\* query_graph.py: the grouped count query

\* The solutions of query 4's graph pattern over the triples G, each a
\* binding <<?meal, ?cat, ?category>>:
\*   ?meal a recipe:Meal ; recipe:belongsToCategory ?cat .
\*   ?cat rdfs:label ?category .
Query4Solutions(G) ==
    UNION { { <<b[1], b[3], l[3]>> :
                l \in {t \in G : t[1] = b[3] /\ t[2] = RDFS_label} } :
            b \in {t \in G : /\ t[2] = RECIPE("belongsToCategory")
                             /\ <<t[1], RDF_type, RECIPE("Meal")>> \in G} }

\* GROUP BY ?category with (COUNT(?meal) as ?count): one row per value of
\* ?category, counting the solutions of its group.
Query4Groups(G) ==
    { [category |-> c,
       count |-> Cardinality({sol \in Query4Solutions(G) : sol[3] = c})] :
      c \in {sol[3] : sol \in Query4Solutions(G)} }

\* OrderedDescending with the order reversed.
OrderedAscending(rows) ==
    \A m, n \in 1..Len(rows) : m < n => rows[m].count <= rows[n].count

\* ORDER BY DESC(?count)
OrderedDescending(rows) ==
    \A m, n \in 1..Len(rows) : m < n => rows[m].count >= rows[n].count

\* The result sequences of query 4 over G: the rows in any order that
\* ORDER BY DESC(?count) allows (rows of equal count come in either order).
Query4Results(G) ==
    LET groups == Query4Groups(G)
        n == Cardinality(groups)
    IN  { rows \in [1..n -> groups] :
            /\ \A a, b \in 1..n : a # b => rows[a] # rows[b]
            /\ OrderedDescending(rows) }

\* The script: g.parse("recipe_knowledge_graph.ttl") of the file main wrote
\* (it fails when there is no file), then the queries.  The rows of query 4
\* are kept; the other queries only print.
RunQueries ==
    /\ file.exists
    /\ rows4' \in Query4Results(file.triples)
    /\ queried' = TRUE
    /\ UNCHANGED <<count, i, attempts, failed, sleeps, meals, pc, idx, g, emitted,
                   error, file>>

----------------------------------------------------------------------------

\* The iterations of fetch_random_meals and its return.
Fetch ==
    \/ FetchException
    \/ FetchBadStatus
    \/ FetchMalformed
    \/ FetchMeal
    \/ FetchReturn

\* The rest of main.
Build ==
    \/ AddMealToGraph
    \/ AddMealKeyError
    \/ Serialize

Next == Fetch \/ Build \/ RunQueries

Spec == Init /\ [][Next]_vars

\* fetch_random_meals is sequential code: while it has a step to take, it
\* takes one.
FairSpec == Spec /\ WF_vars(Fetch)

----------------------------------------------------------------------------
\* Claims

Mapped == {meals[k] : k \in 1..idx}

NoDuplicates(seq) == \A m, n \in 1..Len(seq) : m # n => seq[m] # seq[n]

\* The first call of add_meal_to_graph was on BeefStew, and it is the latest.
BeefStewAlone == idx = 1 /\ meals[1] = BeefStew /\ error = "none"

BeefStewMeal == URIRef("meal", <<"5", "2", "8", "7", "4">>)

BeefStewIngredient ==
    URIRef("ingredient",
           <<"5", "2", "8", "7", "4", "_", "i", "n", "g", "r", "e", "d", "i", "e",
             "n", "t", "_", "1">>)

BeefStewGraph ==
    { <<BeefStewMeal, RDF_type, RECIPE("Meal")>>,
      <<BeefStewMeal, RECIPE("hasName"),
        Literal(<<"B", "e", "e", "f", " ", "S", "t", "e", "w">>)>>,
      <<URIRef("category", <<"B", "e", "e", "f">>), RDF_type, RECIPE("Category")>>,
      <<URIRef("category", <<"B", "e", "e", "f">>), RDFS_label,
        Literal(<<"B", "e", "e", "f">>)>>,
      <<BeefStewMeal, RECIPE("belongsToCategory"),
        URIRef("category", <<"B", "e", "e", "f">>)>>,
      <<URIRef("cuisine", <<"I", "t", "a", "l", "i", "a", "n">>), RDF_type,
        RECIPE("Cuisine")>>,
      <<URIRef("cuisine", <<"I", "t", "a", "l", "i", "a", "n">>), RDFS_label,
        Literal(<<"I", "t", "a", "l", "i", "a", "n">>)>>,
      <<BeefStewMeal, RECIPE("belongsToCuisine"),
        URIRef("cuisine", <<"I", "t", "a", "l", "i", "a", "n">>)>>,
      <<BeefStewIngredient, RDF_type, RECIPE("Ingredient")>>,
      <<BeefStewIngredient, RECIPE("ingredientName"), Literal(<<"B", "e", "e", "f">>)>>,
      <<BeefStewIngredient, RECIPE("ingredientMeasure"), Literal(<<"1", "k", "g">>)>>,
      <<BeefStewMeal, RECIPE("hasIngredient"), BeefStewIngredient>> }

\* C1 as stated: from the empty graph, add_meal_to_graph on the Beef Stew
\* record leaves exactly 9 triples, none twice.
C1_NineTriples ==
    BeefStewAlone =>
        /\ Cardinality(g) = 9
        /\ Len(emitted) = 9
        /\ NoDuplicates(emitted)

\* C1 amended: from the empty graph, add_meal_to_graph on the Beef Stew
\* record makes 12 g.add calls, no triple twice, and leaves exactly the 12
\* triples listed: the Meal type triple, hasName, the Category type/label
\* pair and belongsToCategory, the Cuisine type/label pair and
\* belongsToCuisine, and the Ingredient's type, name and measure triples and
\* hasIngredient.
C1_TwelveTriples ==
    BeefStewAlone =>
        /\ g = BeefStewGraph
        /\ Cardinality(g) = 12
        /\ Len(emitted) = 12
        /\ NoDuplicates(emitted)
        /\ Range(emitted) = g

C1_Witness == BeefStewAlone /\ pc = "build" /\ Cardinality(g) = 12


\* The value is a string with at least one character.
NonEmptyStr(v) == v.k = "str" /\ Len(v.s) > 0

\* The value is a string with a character that is no whitespace.
NonBlankStr(v) == v.k = "str" /\ \E n \in 1..Len(v.s) : v.s[n] \notin Whitespace

\* The latest step of main's loop was a call of add_meal_to_graph that
\* returned; emitted holds its g.add calls.
JustMapped == idx >= 1 /\ error = "none"

\* C2: calling add_meal_to_graph on the same record twice in a row leaves
\* the triple set as the first call left it: the second call adds nothing.
C2_Idempotent ==
    [][(idx' = idx + 1 /\ idx >= 1 /\ meals[idx + 1] = meals[idx]) => g' = g]_vars

C2_Witness ==
    /\ idx >= 2
    /\ meals[idx] = meals[idx - 1]
    /\ Len(emitted) >= 12

\* C3 as stated: a call of add_meal_to_graph on a record without a non-empty
\* idMeal (no key, null or "") fails with an error and leaves g unchanged.
C3_MissingIdFails ==
    [][(/\ pc = "build"
        /\ idx < Len(meals)
        /\ ~NonEmptyStr(meals[idx + 1].idMeal))
       => (g' = g /\ error' # "none" /\ idx' = idx)]_vars

ScalarFields ==
    { <<"strMeal", "hasName">>, <<"strInstructions", "hasInstructions">>,
      <<"strMealThumb", "hasThumbnail">>, <<"strYoutube", "hasYoutubeLink">> }

\* C4: for each of the four scalar fields of the record just mapped, a
\* present non-empty value makes exactly one g.add call with the field's
\* predicate, of (Meal, predicate, Literal(value)), and that triple is in g;
\* an absent, null or empty value makes none.  No triple of g with one of
\* the four predicates has an empty literal.
C4_Scalars ==
    /\ JustMapped =>
         \A f \in ScalarFields :
            LET value == meals[idx][f[1]]
                calls == {n \in 1..Len(emitted) : emitted[n][2] = RECIPE(f[2])}
                triple == << URIRef("meal", meals[idx].idMeal.s), RECIPE(f[2]),
                             Literal(value.s) >>
            IN  IF NonEmptyStr(value)
                THEN /\ Cardinality(calls) = 1
                     /\ \A n \in calls : emitted[n] = triple
                     /\ triple \in g
                ELSE calls = {}
    /\ \A t \in g :
         (\E f \in ScalarFields : t[2] = RECIPE(f[2]))
            => t[3].t = "lit" /\ t[3].v # <<>>

C4_Witness ==
    /\ JustMapped
    /\ meals[idx].strYoutube = Str(<<>>)
    /\ NonEmptyStr(meals[idx].strMeal)
    /\ meals[idx].strInstructions.k = "str"
    /\ \E m \in Mapped : m.strMeal.k = "absent" /\ NonEmptyStr(m.strYoutube)

\* The entities of the class that carry the label.
LabelledBy(class, label) ==
    { t[1] : t \in { u \in g : /\ u[2] = RDFS_label
                               /\ u[3] = Literal(label)
                               /\ <<u[1], RDF_type, RECIPE(class)>> \in g } }

\* Records a and b, both mapped with a non-empty field, whose values
\* create_uri_ref normalizes to the same identifier, are linked by the
\* predicate to one and the same entity: the only entity of the class that
\* carries either value as a label.
SameEntity(a, b, field, namespace, class, predicate) ==
    ( /\ NonEmptyStr(a[field])
      /\ NonEmptyStr(b[field])
      /\ create_uri_ref(namespace, a[field]) = create_uri_ref(namespace, b[field]) )
    => LET entities == LabelledBy(class, a[field].s) \cup LabelledBy(class, b[field].s)
       IN  /\ Cardinality(entities) = 1
           /\ \A e \in entities :
                /\ <<URIRef("meal", a.idMeal.s), RECIPE(predicate), e>> \in g
                /\ <<URIRef("meal", b.idMeal.s), RECIPE(predicate), e>> \in g

\* C5: Category and Cuisine entities are singletons per normalized label.
C5_Singleton ==
    \A a, b \in Mapped :
        /\ SameEntity(a, b, "strCategory", "category", "Category", "belongsToCategory")
        /\ SameEntity(a, b, "strArea", "cuisine", "Cuisine", "belongsToCuisine")

C5_Witness ==
    \E a, b \in Mapped :
        /\ a.idMeal # b.idMeal
        /\ a.strArea = Str(<<"I", "t", "a", "l", "i", "a", "n">>)
        /\ b.strArea = Str(<<" ", "I", "t", "a", "l", "i", "a", "n", " ">>)
        /\ \E c, d \in Mapped :
             /\ c.strCategory = Str(<<"a", " ", "b">>)
             /\ d.strCategory = Str(<<"a", "_", "b">>)

IngredientEntities ==
    { t[1] : t \in {u \in g : u[2] = RDF_type /\ u[3] = RECIPE("Ingredient")} }

\* C6: every Ingredient entity of g is the one of a mapped record and a slot
\* 1..20 whose name is non-blank; every subject of an ingredientMeasure
\* triple is an Ingredient entity with a non-empty trimmed ingredientName
\* and is the object of hasIngredient from the meal of a record it comes
\* from; a slot of the record just mapped whose name is absent, null, empty
\* or blank, or that lies past slot 20, is in none of the call's triples.
C6_Ingredients ==
    /\ \A e \in IngredientEntities :
         \E meal \in Mapped, n \in 1..NumSlots :
            /\ NonBlankStr(meal.strIngredient[n])
            /\ e = IngredientUri(meal.idMeal, n)
    /\ \A t \in g :
         t[2] = RECIPE("ingredientMeasure") =>
            /\ t[1] \in IngredientEntities
            /\ t[3].t = "lit" /\ t[3].v # <<>>
            /\ \E nm \in g :
                 /\ nm[1] = t[1]
                 /\ nm[2] = RECIPE("ingredientName")
                 /\ nm[3].t = "lit"
                 /\ nm[3].v # <<>>
                 /\ nm[3].v[1] \notin Whitespace
                 /\ nm[3].v[Len(nm[3].v)] \notin Whitespace
            /\ \E meal \in Mapped, n \in 1..NumSlots :
                 /\ t[1] = IngredientUri(meal.idMeal, n)
                 /\ <<URIRef("meal", meal.idMeal.s), RECIPE("hasIngredient"), t[1]>> \in g
    /\ JustMapped =>
         \A n \in KeySlots :
            (n > NumSlots \/ ~NonBlankStr(meals[idx].strIngredient[n])) =>
               \A m \in 1..Len(emitted) :
                  /\ emitted[m][1] # IngredientUri(meals[idx].idMeal, n)
                  /\ emitted[m][3] # IngredientUri(meals[idx].idMeal, n)

C6_Witness ==
    /\ JustMapped
    /\ \E n \in 1..NumSlots :
         /\ ~NonBlankStr(meals[idx].strIngredient[n])
         /\ NonBlankStr(meals[idx].strMeasure[n])
    /\ \E n \in 1..NumSlots :
         /\ NonBlankStr(meals[idx].strIngredient[n])
         /\ <<IngredientUri(meals[idx].idMeal, n), RECIPE("ingredientMeasure"),
              Literal(<<"1", "k", "g">>)>> \in g
    /\ NonBlankStr(meals[idx].strIngredient[NumSlots + 1])


\* C7, the part every state satisfies: there was one attempt per iteration
\* made so far (none repeated); each attempt that failed by a transport
\* exception, a status other than 200 or a malformed payload added no meal
\* and each other attempt added one; once the loop has returned there were
\* exactly count attempts.
C7_Counts ==
    /\ attempts = i
    /\ i <= count
    /\ Len(meals) = attempts - failed
    /\ pc # "fetch" => attempts = count

C9_SleepBetweenAttempts == [][attempts' = attempts + 1 => sleeps = attempts]_vars

\* C10 as stated: no Category or Cuisine entity has an empty identifier
\* after its namespace, and a call whose strCategory (strArea) is absent,
\* null, empty or blank makes no g.add call with the Category (Cuisine)
\* class or the belongsToCategory (belongsToCuisine) predicate.
C10_NoEmptyLabelEntity ==
    /\ \A t \in g :
         (t[2] = RDF_type /\ t[3] \in {RECIPE("Category"), RECIPE("Cuisine")})
            => t[1].t = "uri" /\ t[1].v # <<>>
    /\ JustMapped =>
         /\ ~NonBlankStr(meals[idx].strCategory) =>
               \A n \in 1..Len(emitted) :
                  /\ emitted[n][3] # RECIPE("Category")
                  /\ emitted[n][2] # RECIPE("belongsToCategory")
         /\ ~NonBlankStr(meals[idx].strArea) =>
               \A n \in 1..Len(emitted) :
                  /\ emitted[n][3] # RECIPE("Cuisine")
                  /\ emitted[n][2] # RECIPE("belongsToCuisine")

\* The Meal entities of G linked to a Category entity that carries the label.
MealsOfLabel(G, label) ==
    { t[1] : t \in { u \in G : /\ u[2] = RECIPE("belongsToCategory")
                               /\ <<u[1], RDF_type, RECIPE("Meal")>> \in G
                               /\ <<u[3], RDFS_label, label>> \in G } }

CategoryLabels(G) ==
    { label \in {t[3] : t \in {u \in G : u[2] = RDFS_label}} :
        MealsOfLabel(G, label) # {} }

MealsWithCategory(G) ==
    { t[1] : t \in { u \in G : /\ u[2] = RECIPE("belongsToCategory")
                               /\ <<u[1], RDF_type, RECIPE("Meal")>> \in G } }

RECURSIVE SumCounts(_)
SumCounts(rows) ==
    IF rows = <<>> THEN 0 ELSE Head(rows).count + SumCounts(Tail(rows))

\* The rows are one per category label, each with the number of distinct
\* Meal entities of that label's category, in descending order of count.
RowsPerLabel(G, rows) ==
    /\ {rows[n].category : n \in 1..Len(rows)} = CategoryLabels(G)
    /\ Len(rows) = Cardinality(CategoryLabels(G))
    /\ \A n \in 1..Len(rows) :
         rows[n].count = Cardinality(MealsOfLabel(G, rows[n].category))
    /\ \A n \in 1..(Len(rows) - 1) : rows[n].count >= rows[n + 1].count

\* C8 as stated: query 4 returns one row per category label with the number
\* of its meals, in descending order of count, and the counts sum to the
\* number of meals that have a category.
C8_CountsSumToMeals ==
    queried =>
        /\ RowsPerLabel(file.triples, rows4)
        /\ SumCounts(rows4) = Cardinality(MealsWithCategory(file.triples))

\* C8 amended: query 4 returns one row per category label with the number
\* of distinct Meal entities linked to a category carrying that label, in
\* descending order of count; the counts sum to the number of (meal, label)
\* pairs, which is the number of meals that have a category when every meal
\* has one category and every category one label.
C8_RowsPerLabel ==
    queried =>
        LET G == file.triples
            pairs == UNION { {<<m, label>> : m \in MealsOfLabel(G, label)} :
                             label \in CategoryLabels(G) }
            single ==
                /\ \A a, b \in G :
                     (a[2] = RECIPE("belongsToCategory") /\ b[2] = a[2] /\ a[1] = b[1])
                        => a[3] = b[3]
                /\ \A a, b \in G :
                     ( /\ a[2] = RDFS_label /\ b[2] = RDFS_label /\ a[1] = b[1]
                       /\ <<a[1], RDF_type, RECIPE("Category")>> \in G )
                        => a[3] = b[3]
        IN  /\ RowsPerLabel(G, rows4)
            /\ SumCounts(rows4) = Cardinality(pairs)
            /\ single => SumCounts(rows4) = Cardinality(MealsWithCategory(G))

C8_Witness ==
    /\ queried
    /\ Len(rows4) = 2
    /\ rows4[1] = [category |-> Literal(<<"B", "e", "e", "f">>), count |-> 2]
    /\ rows4[2] = [category |-> Literal(<<"S", "e", "a", "f", "o", "o", "d">>), count |-> 1]

====
